---- MODULE Spec2Model ----
(***************************************************************************)
(* Model of MoonrakerRemotePrinter (src/src/models/Materials/              *)
(* MaterialUsage.ts, lines 122-270): connection URL derivation, liveness   *)
(* test, fire-and-forget control commands, WebSocket session slot and the  *)
(* update-status normalisation.                                            *)
(*                                                                         *)
(* JavaScript strings are sequences of one-character strings, so that      *)
(* String.replace / endsWith / slice / template concatenation are computed *)
(* character by character.                                                 *)
(***************************************************************************)
EXTENDS Integers, Sequences, FiniteSets, TLC

VARIABLES
  connectionAddress,  \* this.connectionAddress
  socket,             \* this.socket: 0 is null, n > 0 is the n-th WS created
  sockets,            \* every WS object constructed so far, in creation order
  pending,            \* fetch promises in flight, in issue order
  last,               \* the most recently completed call and what it gave
  unhandled,          \* operations whose rejected promise had no handler
  backend,            \* how the backend answers update-status requests
  built               \* last buildConnectionURL evaluation (pure-function spec)

vars == <<connectionAddress, socket, sockets, pending, last, unhandled, backend, built>>

----------------------------------------------------------------------------
(* Bounds *)

MaxSlashes == 2   \* trailing slashes on a configured address
MaxSockets == 2   \* WS objects constructed in one behaviour
MaxPending == 2   \* fetch promises in flight at once
MaxKeys    == 2   \* keys of a version_info mapping
MaxCommits == 2   \* elements of a commits_behind list

----------------------------------------------------------------------------
(* String literals of the source *)

str_http  == <<"h", "t", "t", "p">>
str_ws    == <<"w", "s">>
str_slash == <<"/">>
str_true      == <<"t", "r", "u", "e">>
str_false     == <<"f", "a", "l", "s", "e">>
str_undefined == <<"u", "n", "d", "e", "f", "i", "n", "e", "d">>

path_websocket == <<"/", "w", "e", "b", "s", "o", "c", "k", "e", "t">>
path_emergency_stop == <<"/", "p", "r", "i", "n", "t", "e", "r", "/", "e", "m", "e", "r", "g", "e", "n", "c", "y", "_", "s", "t", "o", "p">>
path_restart == <<"/", "p", "r", "i", "n", "t", "e", "r", "/", "r", "e", "s", "t", "a", "r", "t">>
path_firmware_restart == <<"/", "p", "r", "i", "n", "t", "e", "r", "/", "f", "i", "r", "m", "w", "a", "r", "e", "_", "r", "e", "s", "t", "a", "r", "t">>
path_update_status == <<"/", "m", "a", "c", "h", "i", "n", "e", "/", "u", "p", "d", "a", "t", "e", " ", "/", " ", "s", "t", "a", "t", "u", "s", " ", "?", " ", "r", "e", "f", "r", "e", "s", "h", " ", "=", " ">>

----------------------------------------------------------------------------
(* String primitives *)

\* s.startsWith(p, i - 1): p occurs in s at 1-based position i
OccursAt(s, p, i) ==
  /\ i >= 1
  /\ i + Len(p) - 1 <= Len(s)
  /\ \A k \in 1..Len(p) : s[i + k - 1] = p[k]

\* s.indexOf(p), 1-based; 0 when p does not occur
IndexOf(s, p) ==
  IF \E i \in 1..Len(s) : OccursAt(s, p, i)
    THEN CHOOSE i \in 1..Len(s) :
           /\ OccursAt(s, p, i)
           /\ \A j \in 1..(i - 1) : ~OccursAt(s, p, j)
    ELSE 0

\* s.replace(p, r) with a string pattern: the first occurrence only
StringReplace(s, p, r) ==
  LET i == IndexOf(s, p) IN
    IF i = 0 THEN s
    ELSE SubSeq(s, 1, i - 1) \o r \o SubSeq(s, i + Len(p), Len(s))

\* s.endsWith(p)
EndsWith(s, p) == OccursAt(s, p, Len(s) - Len(p) + 1)

\* s.slice(0, -1)
SliceDropLast(s) == SubSeq(s, 1, Len(s) - 1)

----------------------------------------------------------------------------
(* buildConnectionURL *)

buildConnectionURL_NoStrip(address, websocket) ==
  IF websocket THEN StringReplace(address, str_http, str_ws) ELSE address

buildConnectionURL(address, websocket) ==
  LET url1 == IF websocket THEN StringReplace(address, str_http, str_ws)
                           ELSE address
  IN IF EndsWith(url1, str_slash) THEN SliceDropLast(url1) ELSE url1

----------------------------------------------------------------------------
(* Configured addresses *)

Schemes == { <<"h", "t", "t", "p", ":", "/", "/">>,
             <<"h", "t", "t", "p", "s", ":", "/", "/">>,
             <<"H", "T", "T", "P", ":", "/", "/">>,
             <<"f", "t", "p", ":", "/", "/">>,
             <<>> }

Hosts == { <<"x">>,
           <<"h", "t", "t", "p", ".", "x">>,
           <<"m", "y", "h", "t", "t", "p">> }

RECURSIVE Slashes(_)
Slashes(n) == IF n = 0 THEN <<>> ELSE str_slash \o Slashes(n - 1)

Addresses == { s \o h \o Slashes(n) : s \in Schemes, h \in Hosts, n \in 0..MaxSlashes }

\* addresses used where the adapter's operations, not the builder, are studied
AdapterAddresses == { <<"h", "t", "t", "p", ":", "/", "/", "x">>,
                      <<"h", "t", "t", "p", "s", ":", "/", "/", "x", "/">> }

NoBuild == [done |-> FALSE, websocket |-> FALSE, url |-> <<>>]

----------------------------------------------------------------------------
(* JavaScript values.  Every value is a record tagged by its typeof-like   *)
(* kind; an object keeps its properties in key enumeration order.          *)

Undefined   == [t |-> "undefined"]
Null        == [t |-> "null"]
Bool(b)     == [t |-> "boolean", b |-> b]
Num(n)      == [t |-> "number", n |-> n]
Str(s)      == [t |-> "string", s |-> s]
Arr(items)  == [t |-> "array", items |-> items]
Obj(props)  == [t |-> "object", props |-> props]
WSRef(n)    == [t |-> "ws", id |-> n]
\* a thrown exception / a rejected promise travelling down a chain
Rejected    == [t |-> "throw"]

\* v[key] / v.key: TypeError on null and undefined, undefined when absent
Get(v, key) ==
  IF v.t \in {"undefined", "null", "throw"} THEN Rejected
  ELSE IF v.t = "object" /\ \E i \in 1..Len(v.props) : v.props[i][1] = key
    THEN v.props[CHOOSE i \in 1..Len(v.props) : v.props[i][1] = key][2]
    ELSE Undefined

\* Object.keys(v) throws on null and undefined
ObjectKeysThrows(v) == v.t \in {"undefined", "null", "throw"}

\* Object.keys(v): own enumerable keys in order; none for a number or boolean
ObjectKeys(v) ==
  IF v.t = "object" THEN [i \in 1..Len(v.props) |-> v.props[i][1]]
  ELSE <<>>

\* String(refresh) as the template literal `${refresh}` renders it
TemplateString(v) ==
  IF v.t = "boolean" THEN (IF v.b THEN str_true ELSE str_false)
  ELSE str_undefined

NoResponse == [transport |-> "none", ok |-> FALSE, parses |-> FALSE, body |-> Undefined]
NoCall  == [op |-> "none", status |-> "none", value |-> Undefined,
            requests |-> <<>>, refresh |-> Undefined, response |-> NoResponse]

----------------------------------------------------------------------------
(* Responses of the network.  fetch rejects on a transport failure;        *)
(* otherwise it fulfils with a Response whose ok flag is the 2xx test and  *)
(* whose json() either parses to a value or rejects.                       *)

TransportFailure == [transport |-> "fail", ok |-> FALSE, parses |-> FALSE, body |-> Undefined]
Http(ok, parses, body) == [transport |-> "ok", ok |-> ok, parses |-> parses, body |-> body]

----------------------------------------------------------------------------
(* Shape guards imported from ./RemoteAPI *)

isUpdateRepositoryStatus(v) ==
  /\ v.t = "object"
  /\ Get(v, "remote_version") # Undefined
  /\ Get(v, "commits_behind").t = "array"

isSystemUpdateStatus(v) ==
  /\ v.t = "object"
  /\ Get(v, "package_list") # Undefined

----------------------------------------------------------------------------
(* checkForUpdates: the promise chain fetch().then().then().catch() *)

MapModule_SwapVersions(versionInfo, module) ==
  IF Get(versionInfo, module) # Undefined
    THEN LET moduleVersion == Get(versionInfo, module) IN
      IF moduleVersion = Undefined THEN Null
      ELSE IF isUpdateRepositoryStatus(moduleVersion)
        THEN Obj(<< <<"local", Get(moduleVersion, "remote_version")>>,
                    <<"remote", Get(moduleVersion, "version")>>,
                    <<"commits_behind",
                      Num(Len(Get(moduleVersion, "commits_behind").items))>> >>)
      ELSE IF isSystemUpdateStatus(moduleVersion)
        THEN Obj(<< <<"packages", Get(moduleVersion, "package_list")>> >>)
      ELSE Null
    ELSE Null

\* the callback of modules.map(...)
MapModule(versionInfo, module) ==
  IF Get(versionInfo, module) # Undefined
    THEN LET moduleVersion == Get(versionInfo, module) IN
      IF moduleVersion = Undefined THEN Null
      ELSE IF isUpdateRepositoryStatus(moduleVersion)
        THEN Obj(<< <<"local", Get(moduleVersion, "version")>>,
                    <<"remote", Get(moduleVersion, "remote_version")>>,
                    <<"commits_behind",
                      Num(Len(Get(moduleVersion, "commits_behind").items))>> >>)
      ELSE IF isSystemUpdateStatus(moduleVersion)
        THEN Obj(<< <<"packages", Get(moduleVersion, "package_list")>> >>)
      ELSE Null
    ELSE Null

FilterNotNull_KeepAll(entries) == entries

\* .filter((module) => module !== null)
FilterNotNull(entries) == SelectSeq(entries, LAMBDA e : e # Null)

ThenBuildModuleInfo_NullWhenEmpty(updateStatus) ==
  LET result == Get(updateStatus, "result") IN
    IF result = Rejected THEN Rejected
    ELSE LET versionInfo == Get(result, "version_info") IN
      IF versionInfo = Rejected \/ ObjectKeysThrows(versionInfo) THEN Rejected
      ELSE LET modules == ObjectKeys(versionInfo)
               moduleInfo == FilterNotNull([i \in 1..Len(modules) |->
                               MapModule(versionInfo, modules[i])])
           IN IF moduleInfo = <<>> THEN Null ELSE Arr(moduleInfo)

\* the second .then: read the envelope and build moduleInfo
ThenBuildModuleInfo(updateStatus) ==
  LET result == Get(updateStatus, "result") IN
    IF result = Rejected THEN Rejected
    ELSE LET versionInfo == Get(result, "version_info") IN
      IF versionInfo = Rejected \/ ObjectKeysThrows(versionInfo) THEN Rejected
      ELSE LET modules == ObjectKeys(versionInfo) IN
        Arr(FilterNotNull([i \in 1..Len(modules) |->
                             MapModule(versionInfo, modules[i])]))

\* the first .then: null unless response.ok, else response.json()
ThenParse(response) ==
  IF ~response.ok THEN Null
  ELSE IF response.parses THEN response.body
  ELSE Rejected

\* .catch((err) => null)
CatchNull(p) == IF p = Rejected THEN Null ELSE p

\* what the promise returned by checkForUpdates settles to
CheckForUpdatesChain(response) ==
  LET fetched == IF response.transport = "fail" THEN Rejected ELSE ThenParse(response)
      built2  == IF fetched = Rejected THEN Rejected ELSE ThenBuildModuleInfo(fetched)
  IN CatchNull(built2)

\* what the promise returned by testConnection settles to
TestConnectionResult(response) ==
  IF response.transport = "fail" THEN Bool(FALSE)
  ELSE IF response.ok THEN Bool(TRUE)
  ELSE Bool(FALSE)

PromiseStatus(v) == IF v = Rejected THEN "rejected" ELSE "resolved"

Request(method, url) == [method |-> method, url |-> url]

RemoveAt(s, i) == SubSeq(s, 1, i - 1) \o SubSeq(s, i + 1, Len(s))

----------------------------------------------------------------------------
(* Operations of the adapter.  A call runs to its first await (or to its   *)
(* return) in one step; the network settles each fetch in a later step.    *)

Call(op, url, method, refresh) ==
  [op |-> op, requests |-> <<Request(method, url)>>, refresh |-> refresh]

Completed(op, status, value, requests, refresh, response) ==
  [op |-> op, status |-> status, value |-> value, requests |-> requests,
   refresh |-> refresh, response |-> response]

openSocketConnection_NoStore ==
  /\ Len(sockets) < MaxSockets
  /\ sockets' = Append(sockets,
       [url |-> buildConnectionURL(connectionAddress, TRUE) \o path_websocket,
        closed |-> FALSE])
  /\ socket' = socket
  /\ last' = Completed("openSocketConnection", "resolved", WSRef(Len(sockets')),
                       <<>>, Undefined, NoResponse)
  /\ UNCHANGED <<connectionAddress, pending, unhandled, backend, built>>

\* openSocketConnection has no await: construct, store, return in one step.
\* The addresses of Init are http(s) URLs, which the WS constructor accepts.
openSocketConnection ==
  /\ Len(sockets) < MaxSockets
  /\ sockets' = Append(sockets,
       [url |-> buildConnectionURL(connectionAddress, TRUE) \o path_websocket,
        closed |-> FALSE])
  /\ socket' = Len(sockets')
  /\ last' = Completed("openSocketConnection", "resolved", WSRef(Len(sockets')),
                       <<>>, Undefined, NoResponse)
  /\ UNCHANGED <<connectionAddress, pending, unhandled, backend, built>>

\* testConnection up to `await fetch(url)`
testConnection ==
  /\ Len(pending) < MaxPending
  /\ pending' = Append(pending,
       Call("testConnection", buildConnectionURL(connectionAddress, FALSE),
            "GET", Undefined))
  /\ UNCHANGED <<connectionAddress, socket, sockets, last, unhandled, backend, built>>

testConnectionResume_TrustResponse(i, response) ==
  /\ i \in 1..Len(pending)
  /\ pending[i].op = "testConnection"
  /\ last' = Completed("testConnection", "resolved",
                       Bool(response.transport = "ok"),
                       pending[i].requests, Undefined, response)
  /\ pending' = RemoveAt(pending, i)
  /\ UNCHANGED <<connectionAddress, socket, sockets, unhandled, backend, built>>

\* testConnection from the settling of its fetch to its return
testConnectionResume(i, response) ==
  /\ i \in 1..Len(pending)
  /\ pending[i].op = "testConnection"
  /\ last' = Completed("testConnection",
                       PromiseStatus(TestConnectionResult(response)),
                       TestConnectionResult(response),
                       pending[i].requests, Undefined, response)
  /\ pending' = RemoveAt(pending, i)
  /\ UNCHANGED <<connectionAddress, socket, sockets, unhandled, backend, built>>

\* a control command: issue the POST, keep no reference to its promise, return
ControlCommand(op, path) ==
  /\ Len(pending) < MaxPending
  /\ pending' = Append(pending,
       Call(op, buildConnectionURL(connectionAddress, FALSE) \o path,
            "POST", Undefined))
  /\ last' = Completed(op, "returned", Undefined,
                       <<Request("POST",
                           buildConnectionURL(connectionAddress, FALSE) \o path)>>,
                       Undefined, NoResponse)
  /\ UNCHANGED <<connectionAddress, socket, sockets, unhandled, backend, built>>

emergencyStop   == ControlCommand("emergencyStop", path_emergency_stop)
restart         == ControlCommand("restart", path_restart)
firmwareRestart == ControlCommand("firmwareRestart", path_firmware_restart)

ControlOps == {"emergencyStop", "restart", "firmwareRestart"}

\* the fetch of a control command settles; nothing was chained on its promise
ControlFetchSettled(i, response) ==
  /\ i \in 1..Len(pending)
  /\ pending[i].op \in ControlOps
  /\ unhandled' = IF response.transport = "fail"
                    THEN unhandled \cup {pending[i].op}
                    ELSE unhandled
  /\ pending' = RemoveAt(pending, i)
  /\ UNCHANGED <<connectionAddress, socket, sockets, last, backend, built>>

\* checkForUpdates: issue the POST and return the chained promise
checkForUpdates(refresh) ==
  /\ Len(pending) < MaxPending
  /\ pending' = Append(pending,
       Call("checkForUpdates",
            buildConnectionURL(connectionAddress, FALSE)
              \o path_update_status \o TemplateString(refresh),
            "POST", refresh))
  /\ UNCHANGED <<connectionAddress, socket, sockets, last, unhandled, backend, built>>

\* the fetch of a checkForUpdates settles and the chain runs to its end
checkForUpdatesSettled(i, response) ==
  /\ i \in 1..Len(pending)
  /\ pending[i].op = "checkForUpdates"
  /\ last' = Completed("checkForUpdates",
                       PromiseStatus(CheckForUpdatesChain(response)),
                       CheckForUpdatesChain(response),
                       pending[i].requests, pending[i].refresh, response)
  /\ pending' = RemoveAt(pending, i)
  /\ UNCHANGED <<connectionAddress, socket, sockets, unhandled, backend, built>>

----------------------------------------------------------------------------
(* Inputs *)

RefreshValues == {Bool(TRUE), Bool(FALSE), Undefined}

\* what a GET or a control POST can meet: no connection, 2xx, non-2xx
PlainResponses == {TransportFailure, Http(TRUE, FALSE, Undefined),
                   Http(FALSE, FALSE, Undefined)}

ModuleNames == <<"klipper", "moonraker", "system", "fluidd", "mainsail">>

RECURSIVE Commits(_)
Commits(n) == IF n = 0 THEN <<>> ELSE Append(Commits(n - 1), Num(n))

RepositoryStatus(n) ==
  Obj(<< <<"version", Str("v1")>>, <<"remote_version", Str("v2")>>,
         <<"commits_behind", Arr(Commits(n))>> >>)

SystemStatus == Obj(<< <<"package_list", Arr(<<Str("a"), Str("b")>>)>> >>)

\* an object with neither recognised shape: remote_version without commits
PartialStatus == Obj(<< <<"version", Str("v1")>>, <<"remote_version", Str("v2")>> >>)

RawModuleStatuses ==
  {Undefined, Bool(TRUE), SystemStatus, PartialStatus}
    \cup {RepositoryStatus(n) : n \in 0..MaxCommits}

\* the mapping of the documented scenario: klipper, moonraker, system
ScenarioVersionInfo ==
  Obj(<< <<"klipper", RepositoryStatus(3)>>, <<"moonraker", SystemStatus>>,
         <<"system", Bool(TRUE)>> >>)

\* every mapping of up to MaxKeys modules, and the scenario
VersionInfos ==
  UNION { { Obj([i \in 1..n |-> <<ModuleNames[i], f[i]>>]) :
              f \in [1..n -> RawModuleStatuses] } : n \in 0..MaxKeys }
    \cup {ScenarioVersionInfo}

Envelope(versionInfo) ==
  Obj(<< <<"result", Obj(<< <<"version_info", versionInfo>> >>)>> >>)

\* parsed bodies that are not an envelope around a version_info mapping
UnexpectedBodies ==
  { Null, Obj(<<>>), Obj(<< <<"result", Null>> >>), Obj(<< <<"result", Obj(<<>>)>> >>),
    Envelope(Null), Envelope(Num(5)) }

UpdateResponses ==
  {TransportFailure, Http(TRUE, FALSE, Undefined),
   Http(FALSE, TRUE, Envelope(ScenarioVersionInfo)), Http(FALSE, FALSE, Undefined)}
    \cup {Http(TRUE, TRUE, b) : b \in UnexpectedBodies}
    \cup {Http(TRUE, TRUE, Envelope(vi)) : vi \in VersionInfos}

\* the few update responses used where all operations interleave
AdapterUpdateResponses ==
  {TransportFailure, Http(TRUE, TRUE, Envelope(ScenarioVersionInfo))}

----------------------------------------------------------------------------
(* The adapter: every operation, interleaved *)

Init ==
  /\ connectionAddress \in AdapterAddresses
  /\ socket = 0
  /\ sockets = <<>>
  /\ pending = <<>>
  /\ last = NoCall
  /\ unhandled = {}
  /\ backend \in AdapterUpdateResponses
  /\ built = NoBuild

Next ==
  \/ openSocketConnection
  \/ testConnection
  \/ \E i \in 1..MaxPending, r \in PlainResponses : testConnectionResume(i, r)
  \/ emergencyStop
  \/ restart
  \/ firmwareRestart
  \/ \E i \in 1..MaxPending, r \in PlainResponses : ControlFetchSettled(i, r)
  \/ \E refresh \in RefreshValues : checkForUpdates(refresh)
  \/ \E i \in 1..MaxPending : checkForUpdatesSettled(i, backend)

Spec == Init /\ [][Next]_vars

----------------------------------------------------------------------------
(* The update check alone, over every modelled response *)

InitUpdates ==
  /\ connectionAddress \in AdapterAddresses
  /\ socket = 0
  /\ sockets = <<>>
  /\ pending = <<>>
  /\ last = NoCall
  /\ unhandled = {}
  /\ backend \in UpdateResponses
  /\ built = NoBuild

NextUpdates ==
  \/ \E refresh \in RefreshValues : checkForUpdates(refresh)
  \/ \E i \in 1..MaxPending : checkForUpdatesSettled(i, backend)

SpecUpdates == InitUpdates /\ [][NextUpdates]_vars

----------------------------------------------------------------------------
(* Pure-function specification of the URL builder *)

InitURL ==
  /\ connectionAddress \in Addresses
  /\ socket = 0
  /\ sockets = <<>>
  /\ pending = <<>>
  /\ last = NoCall
  /\ unhandled = {}
  /\ backend = TransportFailure
  /\ built = NoBuild

Build(websocket) ==
  /\ built' = [done |-> TRUE, websocket |-> websocket,
               url |-> buildConnectionURL(connectionAddress, websocket)]
  /\ UNCHANGED <<connectionAddress, socket, sockets, pending, last, unhandled, backend>>

NextURL == \E websocket \in BOOLEAN : Build(websocket)

SpecURL == InitURL /\ [][NextURL]_vars

----------------------------------------------------------------------------
(* Vocabulary of the properties *)

\* the REST base URL: the configured address less one trailing slash
RestBaseURL(address) ==
  IF Len(address) > 0 /\ address[Len(address)] = "/"
    THEN SubSeq(address, 1, Len(address) - 1)
    ELSE address

IsPrefix(u, r) == Len(u) <= Len(r) /\ SubSeq(r, 1, Len(u)) = u

\* the address with its leading scheme token rewritten http -> ws
SchemeRewritten(address) ==
  IF IsPrefix(str_http, address)
    THEN str_ws \o SubSeq(address, Len(str_http) + 1, Len(address))
    ELSE address

\* the last completed call is a checkForUpdates
UpdateCheckDone == last.op = "checkForUpdates"

HasKey(v, key) == v.t = "object" /\ \E i \in 1..Len(v.props) : v.props[i][1] = key

\* the parsed body is an envelope {result: {version_info: <mapping>}}
IsEnvelope(body) ==
  /\ HasKey(body, "result")
  /\ HasKey(Get(body, "result"), "version_info")
  /\ Get(Get(body, "result"), "version_info").t = "object"

\* the response is successful and parses to an envelope
Successful(response) ==
  /\ response.transport = "ok"
  /\ response.ok
  /\ response.parses
  /\ IsEnvelope(response.body)

VersionInfoOf(response) == Get(Get(response.body, "result"), "version_info")

\* raw shapes, in the words of the data model
RawRepositoryShape(raw) ==
  HasKey(raw, "remote_version") /\ HasKey(raw, "commits_behind")
    /\ Get(raw, "commits_behind").t = "array"
RawPackageShape(raw) == HasKey(raw, "package_list")
RawRecognized(raw) == RawRepositoryShape(raw) \/ RawPackageShape(raw)

\* result entry shapes: three fields local, remote and a count; or packages
RepositoryEntryShape(e) ==
  /\ e.t = "object"
  /\ Len(e.props) = 3
  /\ e.props[1][1] = "local"
  /\ e.props[2][1] = "remote"
  /\ e.props[3][2].t = "number"
PackageEntryShape(e) ==
  /\ e.t = "object"
  /\ Len(e.props) = 1
  /\ e.props[1][1] = "packages"
  /\ e.props[1][2].t = "array"

\* the order-preserving projection of a mapping's properties, the count
\* being stored under countKey
RECURSIVE Projection(_, _)
Projection(props, countKey) ==
  IF props = <<>> THEN <<>>
  ELSE LET raw  == Head(props)[2]
           rest == Projection(Tail(props), countKey)
       IN IF RawRepositoryShape(raw)
            THEN << Obj(<< <<"local", Get(raw, "version")>>,
                           <<"remote", Get(raw, "remote_version")>>,
                           <<countKey, Num(Len(Get(raw, "commits_behind").items))>> >>) >>
                 \o rest
          ELSE IF RawPackageShape(raw)
            THEN << Obj(<< <<"packages", Get(raw, "package_list")>> >>) >> \o rest
          ELSE rest

ScenarioResult(countKey) ==
  Arr(<< Obj(<< <<"local", Str("v1")>>, <<"remote", Str("v2")>>, <<countKey, Num(3)>> >>),
         Obj(<< <<"packages", Arr(<<Str("a"), Str("b")>>)>> >>) >>)

ProjectionHolds(countKey) ==
  UpdateCheckDone /\ Successful(last.response) =>
    /\ last.status = "resolved"
    /\ last.value = Arr(Projection(VersionInfoOf(last.response).props, countKey))
    /\ VersionInfoOf(last.response) = ScenarioVersionInfo
         => last.value = ScenarioResult(countKey)

----------------------------------------------------------------------------
(* Properties *)

\* C1: checkForUpdates resolves to null, and never rejects, whenever the
\* transport call fails, the status is not successful, or the body cannot
\* be parsed or is not an envelope around a version_info mapping, for every
\* value of refresh.
C1_FailureGivesNull ==
  UpdateCheckDone /\ ~Successful(last.response) =>
    last.status = "resolved" /\ last.value = Null

C4_SequenceNotNull ==
  UpdateCheckDone /\ Successful(last.response) =>
    LET raw == VersionInfoOf(last.response).props IN
      /\ last.status = "resolved"
      /\ last.value.t = "array"
      /\ (\A i \in 1..Len(raw) : ~RawRecognized(raw[i][2]))
           => last.value = Arr(<<>>)

C4_Witness ==
  /\ UpdateCheckDone
  /\ last.response = Http(TRUE, TRUE, Envelope(Obj(<<>>)))
  /\ last.value = Arr(<<>>)

\* C5: testConnection issues one GET to the REST base URL and resolves to
\* true exactly when the response is successful; it resolves to false on a
\* non-2xx response and on a transport failure, and never rejects.
C5_TestConnection ==
  /\ \A i \in 1..Len(pending) : pending[i].op = "testConnection" =>
       pending[i].requests = <<Request("GET", RestBaseURL(connectionAddress))>>
  /\ last.op = "testConnection" =>
       /\ last.status = "resolved"
       /\ last.requests = <<Request("GET", RestBaseURL(connectionAddress))>>
       /\ last.value \in {Bool(TRUE), Bool(FALSE)}
       /\ last.value = Bool(TRUE) <=>
            (last.response.transport = "ok" /\ last.response.ok)

C5_Witness ==
  /\ last.op = "testConnection"
  /\ last.response = Http(FALSE, FALSE, Undefined)
  /\ last.value = Bool(FALSE)

\* C6: a control command whose POST rejects neither throws to its caller nor
\* leaves an unhandled promise rejection.
C6_NoFailureSurfaces ==
  /\ unhandled = {}
  /\ last.op \in ControlOps => last.status = "returned"

\* C7: with the WebSocket flag the builder rewrites only the leading scheme
\* token (http -> ws, https -> wss) and leaves every other "http" of the
\* address as it is; without the flag the scheme is untouched.  The returned
\* URL is that text, less at most its last character.
C7_SchemeTokenOnly ==
  built.done =>
    LET expected == IF built.websocket THEN SchemeRewritten(connectionAddress)
                                       ELSE connectionAddress
    IN IsPrefix(built.url, expected) /\ Len(built.url) >= Len(expected) - 1

\* C8 as stated: for every address and either flag the returned URL does
\* not end with "/".
C8_NeverTrailingSlash == built.done => ~EndsWith(built.url, str_slash)

\* C8 amended: for every address that does not end with two or more slashes
\* and either flag, the returned URL does not end with "/".
C8_NoTrailingSlash ==
  built.done /\ ~EndsWith(connectionAddress, str_slash \o str_slash) =>
    ~EndsWith(built.url, str_slash)

C8_Witness ==
  /\ built.done
  /\ built.websocket
  /\ EndsWith(connectionAddress, str_slash)
  /\ ~EndsWith(connectionAddress, str_slash \o str_slash)
  /\ built.url = SubSeq(SchemeRewritten(connectionAddress), 1, Len(built.url))
  /\ ~EndsWith(built.url, str_slash)

\* C9: checkForUpdates(refresh) sends exactly one POST to the REST base URL
\* followed by /machine/update_status?refresh=<refresh>, nothing inserted.
C9_UpdateStatusURL ==
  LET expected(refresh) ==
        <<Request("POST",
            RestBaseURL(connectionAddress)
              \o <<"/", "m", "a", "c", "h", "i", "n", "e", "/", "u", "p", "d",
                   "a", "t", "e", "_", "s", "t", "a", "t", "u", "s", "?",
                   "r", "e", "f", "r", "e", "s", "h", "=">>
              \o TemplateString(refresh))>>
  IN /\ \A i \in 1..Len(pending) : pending[i].op = "checkForUpdates" =>
          pending[i].requests = expected(pending[i].refresh)
     /\ UpdateCheckDone => last.requests = expected(last.refresh)

\* C10: the socket slot is null until the first openSocketConnection and
\* always holds the most recently created handle; only openSocketConnection
\* changes it, each call storing and returning a new handle and leaving
\* every earlier handle as it was; no handle is ever closed by the adapter.
C10_SlotInv ==
  /\ socket = Len(sockets)
  /\ \A i \in 1..Len(sockets) : ~sockets[i].closed

C10_SlotStep ==
  (socket' # socket \/ sockets' # sockets) =>
    /\ Len(sockets') = Len(sockets) + 1
    /\ SubSeq(sockets', 1, Len(sockets)) = sockets
    /\ socket' = Len(sockets')
    /\ last'.op = "openSocketConnection"
    /\ last'.status = "resolved"
    /\ last'.value = WSRef(socket')

C10_SocketSlot == []C10_SlotInv /\ [][C10_SlotStep]_vars

C10_Witness ==
  /\ Len(sockets) >= 2
  /\ socket = Len(sockets)
  /\ ~sockets[1].closed
  /\ last.op # "openSocketConnection"

====
